---- MODULE Spec2Model ----
(***************************************************************************)
(* BackendPlugin (cura/BackendPlugin.py): the supervisor of one external   *)
(* engine-plugin process.  The model keeps the object's fields, the child  *)
(* processes the operating system holds for it, and what the last call     *)
(* returned, logged, notified and asked of the process primitives.         *)
(* A token of an argument vector is a sequence of one-character strings,   *)
(* so that str(port) is computed digit by digit.                           *)
(***************************************************************************)
EXTENDS Integers, Sequences, FiniteSets, TLC

\* ---------------------------------------------------------------- bounds
\* Ports the registry assigns are 0..MaxPort and 9000.
MaxPort == 1
\* At most MaxSpawn child processes are created in one behaviour.
MaxSpawn == 2
\* At most MaxCalls calls of start()/stop() are made in one behaviour.
MaxCalls == 4
\* The validator alone is exercised on the ports 0..MaxValidatorPort.
MaxValidatorPort == 120

VARIABLES
    __port,            \* self.__port
    _plugin_address,   \* self._plugin_address
    _plugin_command,   \* self._plugin_command : Optional[List[str]]
    _process,          \* self._process : 0 is None, else the pid of the Popen object
    _is_running,       \* self._is_running
    platform,          \* the platform the interpreter runs on
    procState,         \* pid -> "none" | "alive" | "signalled" | "exited"
    nspawned,          \* number of child processes created so far
    processArgs,       \* self._process.args : argv the held Popen object was made with
    popenArgs,         \* argv of the latest subprocess.Popen call
    validated,         \* what the latest _validatePluginCommand() returned
    pc,                \* "idle", or "stop_wait" while stop() blocks in wait()
    calls,             \* number of start()/stop() calls made
    prev,              \* op, ret and outcome of the call before the latest one
    op,                \* the latest call of start()/stop(): "none" | "start" | "stop"
    ret,               \* what it returned: "none" | "True" | "False" | "raised" | "blocked"
    outcome,           \* what the process primitive of the latest call answered
    notes,             \* messages shown by the latest call (_showMessage)
    logs,              \* Logger entries of the latest call
    prims              \* process primitives invoked by the latest call, in order

config == <<_plugin_address, _plugin_command, platform>>
fields == <<__port, _process, _is_running, processArgs>>
os     == <<procState, nspawned, popenArgs>>
call   == <<validated, pc, calls, prev, op, ret, outcome, notes, logs, prims>>
vars   == <<config, fields, os, call>>

\* ---------------------------------------------------------------- tokens
Digits == <<"0", "1", "2", "3", "4", "5", "6", "7", "8", "9">>

\* Python's str(int): a minus sign for a negative number, then the decimal
\* digits without leading zeros.
RECURSIVE str(_)
str(n) ==
    IF n < 0 THEN <<"-">> \o str(-n)
    ELSE IF n < 10 THEN <<Digits[n + 1]>>
    ELSE str(n \div 10) \o <<Digits[(n % 10) + 1]>>

PortFlag    == <<"-", "-", "p", "o", "r", "t">>
AddressFlag == <<"-", "-", "a", "d", "d", "r", "e", "s", "s">>
Loopback    == <<"1", "2", "7", ".", "0", ".", "0", ".", "1">>
Localhost   == <<"l", "o", "c", "a", "l", "h", "o", "s", "t">>
Exe         == <<"e", "x", "e">>
PortEq      == <<"-", "-", "p", "o", "r", "t", "=", "1">>

\* Optional[List[str]]
None    == [none |-> TRUE, list |-> <<>>]
Some(l) == [none |-> FALSE, list |-> l]

\* Python truth value of an Optional[List[str]]: None and [] are false.
Truthy(c) == ~c.none /\ Len(c.list) > 0

\* x in list
In(x, list) == \E i \in 1..Len(list) : list[i] = x

\* The command templates a plugin is configured with.
Templates ==
    { <<>>,
      <<Exe>>,
      <<Exe, PortFlag, str(1)>>,
      <<Exe, PortEq>>,
      <<Exe, AddressFlag, Localhost>>,
      <<Exe, PortFlag, str(1), PortFlag, str(2)>> }

Addresses == {Loopback, Localhost}
Ports     == (0..MaxPort) \cup {9000}
Pids      == 1..MaxSpawn

\* ---------------------------------------------------------------- accessors
isRunning  == _is_running
getPort    == __port
getAddress == _plugin_address

\* ---------------------------------------------------------------- validator
\* Variant: the endpoint is appended port first.
validateSwapped ==
    IF ~Truthy(_plugin_command) \/ In(PortFlag, _plugin_command.list)
    THEN IF Truthy(_plugin_command) THEN _plugin_command.list ELSE <<>>
    ELSE _plugin_command.list \o <<PortFlag, str(__port), AddressFlag, getAddress>>

\* Variant: the endpoint is appended without looking for "--port".
validateAlwaysAppends ==
    IF ~Truthy(_plugin_command)
    THEN <<>>
    ELSE _plugin_command.list \o <<AddressFlag, getAddress, PortFlag, str(__port)>>

\* Variant: the address and the port are appended under each other's flag.
validateCrossed ==
    IF ~Truthy(_plugin_command) \/ In(PortFlag, _plugin_command.list)
    THEN IF Truthy(_plugin_command) THEN _plugin_command.list ELSE <<>>
    ELSE _plugin_command.list \o <<AddressFlag, str(__port), PortFlag, getAddress>>

\* The body of _validatePluginCommand as a function of the fields it reads.
validatePluginCommand(command, address, port) ==
    IF ~Truthy(command) \/ In(PortFlag, command.list)
    THEN IF Truthy(command) THEN command.list ELSE <<>>
    ELSE command.list \o <<AddressFlag, address, PortFlag, str(port)>>

_validatePluginCommand ==
    validatePluginCommand(_plugin_command, getAddress, __port)

\* ---------------------------------------------------------------- exceptions
\* The subclasses of OSError the process primitives raise.
OSErrorSubclasses ==
    {"PermissionError", "FileNotFoundError", "BlockingIOError", "NotADirectoryError"}

OSErrors == OSErrorSubclasses \cup {"OSError"}

\* isinstance(e, cls) for the exception classes above
IsInstance(e, cls) == e = cls \/ (cls = "OSError" /\ e \in OSErrorSubclasses)

\* Variant: the last except clause that catches e is taken.
HandlerLastMatch(e, clauses) ==
    IF \E i \in 1..Len(clauses) : IsInstance(e, clauses[i])
    THEN CHOOSE i \in 1..Len(clauses) :
            /\ IsInstance(e, clauses[i])
            /\ \A j \in (i + 1)..Len(clauses) : ~IsInstance(e, clauses[j])
    ELSE 0

\* The index of the first except clause that catches e, 0 when none does.
Handler(e, clauses) ==
    IF \E i \in 1..Len(clauses) : IsInstance(e, clauses[i])
    THEN CHOOSE i \in 1..Len(clauses) :
            /\ IsInstance(e, clauses[i])
            /\ \A j \in 1..(i - 1) : ~IsInstance(e, clauses[j])
    ELSE 0

\* start()'s except clauses, in order, with what each logs and shows.
StartClauses ==
    <<"PermissionError", "FileNotFoundError", "BlockingIOError", "OSError">>

StartMessages ==
    <<"No permission to execute process.",
      "Unable to find local EnginePlugin server executable",
      "Resource is temporarily unavailable",
      "Operating system is blocking it (antivirus?)">>

\* Variant: every clause logs through logException.
StartLogsAllTrace ==
    <<[fn |-> "logException", level |-> "e"],
      [fn |-> "logException", level |-> "e"],
      [fn |-> "logException", level |-> "e"],
      [fn |-> "logException", level |-> "e"]>>

StartLogs ==
    <<[fn |-> "log", level |-> "e"],
      [fn |-> "logException", level |-> "e"],
      [fn |-> "logException", level |-> "e"],
      [fn |-> "logException", level |-> "e"]>>

InfoLog == [fn |-> "info", level |-> "i"]

\* stop()'s except clause.
StopClauses == <<"PermissionError">>
StopMessage == "Access is denied."
StopErrorLog == [fn |-> "log", level |-> "e"]
StopDebugLog == [fn |-> "log", level |-> "d"]

\* What evaluating subprocess.Popen(cmd, stdin = None, creationflags =
\* subprocess.CREATE_NO_WINDOW) can give.  subprocess.CREATE_NO_WINDOW exists
\* on Windows only: elsewhere reading it raises AttributeError before Popen is
\* called.  An empty argument vector is refused by the operating system.
SpawnOutcomes(cmd) ==
    IF platform = "posix" THEN {"AttributeError"}
    ELSE IF cmd = <<>> THEN {"OSError"}
    ELSE OSErrors \cup (IF nspawned < MaxSpawn THEN {"ok"} ELSE {})

\* What Popen.terminate() can give on the held process: nothing is sent to a
\* process that has exited; a live one takes the request or the operating
\* system refuses it.
TerminateOutcomes ==
    IF procState[_process] = "exited" THEN {"noop"}
    ELSE {"accepted", "PermissionError", "OSError"}

\* ---------------------------------------------------------------- operations
Init ==
    /\ __port = 0
    /\ _plugin_address = Loopback
    /\ _plugin_command = None
    /\ _process = 0
    /\ _is_running = FALSE
    /\ platform \in {"windows", "posix"}
    /\ procState = [p \in Pids |-> "none"]
    /\ nspawned = 0
    /\ processArgs = <<>>
    /\ popenArgs = <<>>
    /\ validated = <<>>
    /\ pc = "idle"
    /\ calls = 0
    /\ prev = [op |-> "none", ret |-> "none", outcome |-> "none"]
    /\ op = "none"
    /\ ret = "none"
    /\ outcome = "none"
    /\ notes = <<>>
    /\ logs = <<>>
    /\ prims = <<>>

\* The registry (a subclass) sets the command template and the address, once.
configure(t, a) ==
    /\ pc = "idle"
    /\ _plugin_command = None
    /\ _plugin_command' = Some(t)
    /\ _plugin_address' = a
    /\ UNCHANGED <<platform, fields, os, call>>

setPort(port) ==
    /\ pc = "idle"
    /\ __port' = port
    /\ UNCHANGED <<config, _process, _is_running, processArgs, os, call>>

\* Variant: the process is stored and the run flag is forgotten.
StartSucceededNoFlag(cmd) ==
    /\ nspawned' = nspawned + 1
    /\ procState' = [procState EXCEPT ![nspawned + 1] = "alive"]
    /\ _process' = nspawned + 1
    /\ processArgs' = cmd
    /\ popenArgs' = cmd
    /\ _is_running' = _is_running
    /\ ret' = "True"
    /\ notes' = <<>>
    /\ logs' = <<InfoLog>>
    /\ prims' = <<"Popen">>

\* Popen returned a process object: lines 61-63.
StartSucceeded(cmd) ==
    /\ nspawned' = nspawned + 1
    /\ procState' = [procState EXCEPT ![nspawned + 1] = "alive"]
    /\ _process' = nspawned + 1
    /\ processArgs' = cmd
    /\ popenArgs' = cmd
    /\ _is_running' = TRUE
    /\ ret' = "True"
    /\ notes' = <<>>
    /\ logs' = <<InfoLog>>
    /\ prims' = <<"Popen">>

\* Variant: the run flag is set before the spawn is known to have worked.
StartFailedMarksRunning(e, cmd) ==
    LET h == Handler(e, StartClauses) IN
    /\ popenArgs' = IF e = "AttributeError" THEN popenArgs ELSE cmd
    /\ prims' = IF e = "AttributeError" THEN <<>> ELSE <<"Popen">>
    /\ ret' = IF h = 0 THEN "raised" ELSE "False"
    /\ notes' = IF h = 0 THEN <<>> ELSE <<StartMessages[h]>>
    /\ logs' = IF h = 0 THEN <<InfoLog>> ELSE <<InfoLog, StartLogs[h]>>
    /\ _is_running' = TRUE
    /\ UNCHANGED <<_process, processArgs, procState, nspawned>>

\* The spawn raised e: the first matching except clause logs and shows its
\* message and start() returns False; an exception no clause catches leaves
\* start().
StartFailed(e, cmd) ==
    LET h == Handler(e, StartClauses) IN
    /\ popenArgs' = IF e = "AttributeError" THEN popenArgs ELSE cmd
    /\ prims' = IF e = "AttributeError" THEN <<>> ELSE <<"Popen">>
    /\ ret' = IF h = 0 THEN "raised" ELSE "False"
    /\ notes' = IF h = 0 THEN <<>> ELSE <<StartMessages[h]>>
    /\ logs' = IF h = 0 THEN <<InfoLog>> ELSE <<InfoLog, StartLogs[h]>>
    /\ UNCHANGED <<_process, _is_running, processArgs, procState, nspawned>>

\* Variant: the validator extends self._plugin_command in place.
startAccumulates ==
    /\ pc = "idle"
    /\ calls < MaxCalls
    /\ calls' = calls + 1
    /\ prev' = [op |-> op, ret |-> ret, outcome |-> outcome]
    /\ op' = "start"
    /\ LET cmd == _validatePluginCommand IN
       /\ _plugin_command' = IF Truthy(_plugin_command) THEN Some(cmd)
                                                        ELSE _plugin_command
       /\ \E out \in SpawnOutcomes(cmd) :
             /\ validated' = cmd
             /\ outcome' = out
             /\ IF out = "ok" THEN StartSucceeded(cmd) ELSE StartFailed(out, cmd)
    /\ UNCHANGED <<_plugin_address, platform, __port, pc>>

\* Variant: an object that has held a process cannot be started again.
startOnlyOnce ==
    /\ pc = "idle"
    /\ _process = 0
    /\ calls < MaxCalls
    /\ calls' = calls + 1
    /\ prev' = [op |-> op, ret |-> ret, outcome |-> outcome]
    /\ op' = "start"
    /\ LET cmd == _validatePluginCommand IN
       \E out \in SpawnOutcomes(cmd) :
          /\ validated' = cmd
          /\ outcome' = out
          /\ IF out = "ok" THEN StartSucceeded(cmd) ELSE StartFailed(out, cmd)
    /\ UNCHANGED <<config, __port, pc>>

start ==
    /\ pc = "idle"
    /\ calls < MaxCalls
    /\ calls' = calls + 1
    /\ prev' = [op |-> op, ret |-> ret, outcome |-> outcome]
    /\ op' = "start"
    /\ LET cmd == _validatePluginCommand IN
       \E out \in SpawnOutcomes(cmd) :
          /\ validated' = cmd
          /\ outcome' = out
          /\ IF out = "ok" THEN StartSucceeded(cmd) ELSE StartFailed(out, cmd)
    /\ UNCHANGED <<config, __port, pc>>

\* Variant: stopping with nothing to stop is reported as a failure.
StopNothingNotifies ==
    /\ _is_running' = FALSE
    /\ outcome' = "none"
    /\ ret' = "False"
    /\ notes' = <<StopMessage>>
    /\ logs' = <<StopErrorLog>>
    /\ prims' = <<>>
    /\ UNCHANGED <<procState, pc>>

\* No process is held: lines 87-89.
StopNothing ==
    /\ _is_running' = FALSE
    /\ outcome' = "none"
    /\ ret' = "True"
    /\ notes' = <<>>
    /\ logs' = <<>>
    /\ prims' = <<>>
    /\ UNCHANGED <<procState, pc>>

\* Variant: a process that is already gone is reported as a failure to kill.
StopExitedReports ==
    /\ _is_running' = FALSE
    /\ ret' = "False"
    /\ notes' = <<StopMessage>>
    /\ logs' = <<StopErrorLog>>
    /\ prims' = <<"terminate">>
    /\ UNCHANGED <<procState, pc>>

\* terminate() had nothing to signal and wait() returns the exit code at
\* once: lines 92-96.
StopExited ==
    /\ _is_running' = FALSE
    /\ ret' = "True"
    /\ notes' = <<>>
    /\ logs' = <<StopDebugLog>>
    /\ prims' = <<"terminate", "wait">>
    /\ UNCHANGED <<procState, pc>>

\* Variant: the run flag is cleared when the request is sent, before wait().
StopSignalledClearsFlag ==
    /\ procState' = [procState EXCEPT ![_process] = "signalled"]
    /\ pc' = "stop_wait"
    /\ ret' = "blocked"
    /\ notes' = <<>>
    /\ logs' = <<>>
    /\ prims' = <<"terminate", "wait">>
    /\ _is_running' = FALSE

\* terminate() sent the request; stop() now blocks in wait(): lines 92-93.
StopSignalled ==
    /\ procState' = [procState EXCEPT ![_process] = "signalled"]
    /\ pc' = "stop_wait"
    /\ ret' = "blocked"
    /\ notes' = <<>>
    /\ logs' = <<>>
    /\ prims' = <<"terminate", "wait">>
    /\ UNCHANGED _is_running

\* Variant: the run flag is cleared although the process was not stopped.
StopFailedMarksStopped(e) ==
    LET h == Handler(e, StopClauses) IN
    /\ ret' = IF h = 0 THEN "raised" ELSE "False"
    /\ notes' = IF h = 0 THEN <<>> ELSE <<StopMessage>>
    /\ logs' = IF h = 0 THEN <<>> ELSE <<StopErrorLog>>
    /\ prims' = <<"terminate">>
    /\ _is_running' = FALSE
    /\ UNCHANGED <<procState, pc>>

\* terminate() raised e: lines 97-102, or e leaves stop().
StopFailed(e) ==
    LET h == Handler(e, StopClauses) IN
    /\ ret' = IF h = 0 THEN "raised" ELSE "False"
    /\ notes' = IF h = 0 THEN <<>> ELSE <<StopMessage>>
    /\ logs' = IF h = 0 THEN <<>> ELSE <<StopErrorLog>>
    /\ prims' = <<"terminate">>
    /\ UNCHANGED <<_is_running, procState, pc>>

stop ==
    /\ pc = "idle"
    /\ calls < MaxCalls
    /\ calls' = calls + 1
    /\ prev' = [op |-> op, ret |-> ret, outcome |-> outcome]
    /\ op' = "stop"
    /\ IF _process = 0
       THEN StopNothing
       ELSE \E out \in TerminateOutcomes :
               /\ outcome' = out
               /\ IF out = "noop" THEN StopExited
                  ELSE IF out = "accepted" THEN StopSignalled
                  ELSE StopFailed(out)
    /\ UNCHANGED <<config, __port, _process, processArgs, nspawned, popenArgs,
                   validated>>

\* Variant: the exit is polled for instead of waited for.
stopReturnNoWait ==
    /\ pc = "stop_wait"
    /\ pc' = "idle"
    /\ _is_running' = FALSE
    /\ ret' = "True"
    /\ logs' = <<StopDebugLog>>
    /\ UNCHANGED <<config, __port, _process, processArgs, os, validated, calls,
                   prev, op, outcome, notes, prims>>

\* wait() returns once the held process has exited; stop() completes:
\* lines 93-96.
stopReturn ==
    /\ pc = "stop_wait"
    /\ procState[_process] = "exited"
    /\ pc' = "idle"
    /\ _is_running' = FALSE
    /\ ret' = "True"
    /\ logs' = <<StopDebugLog>>
    /\ UNCHANGED <<config, __port, _process, processArgs, os, validated, calls,
                   prev, op, outcome, notes, prims>>

\* A child process exits, on the terminate request or of its own accord.
childExits(p) ==
    /\ procState[p] \in {"alive", "signalled"}
    /\ procState' = [procState EXCEPT ![p] = "exited"]
    /\ UNCHANGED <<config, fields, nspawned, popenArgs, call>>

Next ==
    \/ \E t \in Templates, a \in Addresses : configure(t, a)
    \/ \E port \in Ports : setPort(port)
    \/ start
    \/ stop
    \/ stopReturn
    \/ \E p \in Pids : childExits(p)

Spec == Init /\ [][Next]_vars

\* A child that has been sent the terminate request exits.
signalledChildExits ==
    \E p \in Pids : procState[p] = "signalled" /\ childExits(p)

\* The behaviours in which a child that was sent the terminate request
\* eventually exits, and wait() then returns.
FairSpec == Spec /\ WF_vars(signalledChildExits) /\ WF_vars(stopReturn)

\* ---------------------------------------------------------------- the validator alone
ValidatorPorts == (-MaxValidatorPort)..MaxValidatorPort

\* A constructed object with any template, address and port set.
InitValidator ==
    /\ __port \in ValidatorPorts
    /\ _plugin_address \in Addresses
    /\ _plugin_command \in {None} \cup {Some(t) : t \in Templates}
    /\ _process = 0
    /\ _is_running = FALSE
    /\ platform \in {"windows", "posix"}
    /\ procState = [p \in Pids |-> "none"]
    /\ nspawned = 0
    /\ processArgs = <<>>
    /\ popenArgs = <<>>
    /\ validated = <<"unset">>
    /\ pc = "idle"
    /\ calls = 0
    /\ prev = [op |-> "none", ret |-> "none", outcome |-> "none"]
    /\ op = "none"
    /\ ret = "none"
    /\ outcome = "none"
    /\ notes = <<>>
    /\ logs = <<>>
    /\ prims = <<>>

validate ==
    /\ validated' = _validatePluginCommand
    /\ UNCHANGED <<config, fields, os, pc, calls, prev, op, ret, outcome, notes,
                   logs, prims>>

SpecValidator == InitValidator /\ [][validate]_vars

\* ---------------------------------------------------------------- properties
\* Number of occurrences of token x in argument vector l.
Count(x, l) == Cardinality({i \in 1..Len(l) : l[i] = x})

DigitChars == {Digits[i] : i \in 1..10}
DigitValue(c) == (CHOOSE i \in 1..10 : Digits[i] = c) - 1

\* The number a digit string denotes.
RECURSIVE ParseDecimal(_)
ParseDecimal(s) ==
    IF Len(s) = 0 THEN 0
    ELSE 10 * ParseDecimal(SubSeq(s, 1, Len(s) - 1)) + DigitValue(s[Len(s)])

IsNaturalDecimalOf(s, n) ==
    /\ Len(s) >= 1
    /\ \A i \in 1..Len(s) : s[i] \in DigitChars
    /\ Len(s) > 1 => s[1] # "0"
    /\ ParseDecimal(s) = n

\* s is the decimal string of the integer n.
IsDecimalOf(s, n) ==
    IF n < 0
    THEN Len(s) >= 2 /\ s[1] = "-" /\ IsNaturalDecimalOf(Tail(s), -n)
    ELSE IsNaturalDecimalOf(s, n)

\* The step is a call of start(), of stop().
StartCall == calls' = calls + 1 /\ op' = "start"
StopCall  == calls' = calls + 1 /\ op' = "stop"

\* The message the notification of each failure kind carries.
KindMessage(e) ==
    CASE e = "PermissionError"   -> "No permission to execute process."
      [] e = "FileNotFoundError" -> "Unable to find local EnginePlugin server executable"
      [] e = "BlockingIOError"   -> "Resource is temporarily unavailable"
      [] OTHER                   -> "Operating system is blocking it (antivirus?)"

\* C1: in every reachable state, isRunning() true implies that a process
\* handle is held.
C1_RunningImpliesHandle == isRunning => _process # 0

\* C1 witness: still running, with the handle, after a refused stop().
C1_Witness ==
    isRunning /\ _process # 0 /\ op = "stop" /\ ret = "False"

\* C2: the validator returns the empty vector for an absent or empty
\* template, the template itself when it contains the token "--port", and
\* otherwise the template followed by "--address", the address, "--port" and
\* the decimal string of the port.
C2_ValidatorResult ==
    validated # <<"unset">> =>
        LET t == _plugin_command.list
            n == Len(t)
        IN  /\ (_plugin_command.none \/ n = 0) => validated = <<>>
            /\ (\E i \in 1..n : t[i] = PortFlag) => validated = t
            /\ (n > 0 /\ \A i \in 1..n : t[i] # PortFlag) =>
                  /\ Len(validated) = n + 4
                  /\ SubSeq(validated, 1, n) = t
                  /\ validated[n + 1] = AddressFlag
                  /\ validated[n + 2] = _plugin_address
                  /\ validated[n + 3] = PortFlag
                  /\ IsDecimalOf(validated[n + 4], __port)

\* C2 witness: a three-digit port appended to a template without "--port".
C2_Witness ==
    /\ validated # <<"unset">>
    /\ _plugin_command = Some(<<Exe, AddressFlag, Localhost>>)
    /\ __port = 107
    /\ Len(validated) = 7

\* C3 as stated: whatever the template, the command start() hands to Popen
\* contains "--port" exactly once.
C3_PortExactlyOnce ==
    (op = "start" /\ In("Popen", prims)) => Count(PortFlag, popenArgs) = 1

\* C3 amended: the command start() hands to Popen is empty for an absent or
\* empty template, is the template itself (nothing injected) when the
\* template contains "--port", and contains "--port" exactly once for every
\* non-empty template that contains it at most once.
C3_PortOnceForSinglePortTemplates ==
    [][(StartCall /\ In("Popen", prims')) =>
          LET t == _plugin_command.list IN
          /\ ~Truthy(_plugin_command) => popenArgs' = <<>>
          /\ In(PortFlag, t) => popenArgs' = t
          /\ (Truthy(_plugin_command) /\ Count(PortFlag, t) <= 1) =>
                /\ Count(PortFlag, popenArgs') = 1
                /\ Count(AddressFlag, popenArgs') = IF In(PortFlag, t)
                                                    THEN Count(AddressFlag, t)
                                                    ELSE Count(AddressFlag, t) + 1
      ]_vars

\* C3 witness: a template with its own "--port" was handed to Popen as it is.
C3_Witness ==
    /\ op = "start"
    /\ In("Popen", prims)
    /\ _plugin_command = Some(<<Exe, PortFlag, str(1)>>)
    /\ popenArgs = <<Exe, PortFlag, str(1)>>
    /\ __port = 9000

\* C4: whenever the spawn succeeds, start() stores the new process handle,
\* sets isRunning, returns true and shows no notification.
C4_StartSuccess ==
    [][(StartCall /\ outcome' = "ok") =>
          /\ _process' # 0
          /\ _process' # _process
          /\ procState[_process'] = "none"
          /\ procState'[_process'] = "alive"
          /\ processArgs' = popenArgs'
          /\ isRunning'
          /\ ret' = "True"
          /\ notes' = <<>>
      ]_vars

\* C4 witness: the first call is a start() that succeeded, STOPPED to RUNNING.
C4_Witness ==
    /\ op = "start" /\ outcome = "ok" /\ ret = "True"
    /\ prev.op = "none"
    /\ isRunning /\ _process = 1

\* C5: whenever the spawn fails with an OSError, start() returns false, leaves
\* isRunning and the held handle as they were, and shows exactly one
\* notification, that of the failure's kind.
C5_StartFailure ==
    [][(StartCall /\ outcome' \in OSErrors) =>
          /\ ret' = "False"
          /\ isRunning' = isRunning
          /\ _process' = _process
          /\ processArgs' = processArgs
          /\ notes' = <<KindMessage(outcome')>>
      ]_vars

\* C5 witness: a permission denial on spawn left a STOPPED supervisor STOPPED.
C5_Witness ==
    /\ op = "start" /\ outcome = "PermissionError" /\ ret = "False"
    /\ ~isRunning /\ _process = 0
    /\ Len(notes) = 1

\* C6: with a handle held and the terminate request accepted, stop() sends
\* terminate and then waits; it returns true, and clears isRunning, only once
\* the tracked process has exited; it invokes no primitive but terminate and
\* wait.
C6_StopWaitsForExit ==
    [][/\ (StopCall /\ outcome' = "accepted") =>
             /\ prims' = <<"terminate", "wait">>
             /\ procState'[_process] = "signalled"
             /\ ret' = "blocked"
             /\ isRunning' = isRunning
       /\ (op' = "stop" /\ ret' = "True" /\ (StopCall \/ ret = "blocked")) =>
             /\ ~isRunning'
             /\ _process' # 0 => procState'[_process'] = "exited"
       /\ (isRunning /\ ~isRunning') =>
             /\ op' = "stop" /\ ret' = "True"
             /\ _process' # 0 => procState'[_process'] = "exited"
       /\ op' = "stop" =>
             \A i \in 1..Len(prims') : prims'[i] \in {"terminate", "wait"}
      ]_vars

\* C6 witness: a stop() whose terminate request was accepted has returned true.
C6_Witness ==
    /\ op = "stop" /\ outcome = "accepted" /\ ret = "True"
    /\ ~isRunning
    /\ procState[_process] = "exited"

\* C7: when the terminate request is denied, stop() returns false, leaves
\* isRunning and the handle as they were, does not wait, and shows exactly one
\* notification.
C7_StopDenied ==
    [][(StopCall /\ outcome' = "PermissionError") =>
          /\ ret' = "False"
          /\ isRunning' = isRunning
          /\ _process' = _process /\ _process # 0
          /\ procState' = procState
          /\ pc' = "idle"
          /\ ~In("wait", prims')
          /\ notes' = <<"Access is denied.">>
      ]_vars

\* C7 witness: a RUNNING supervisor stayed RUNNING after a denied stop().
C7_Witness ==
    /\ op = "stop" /\ outcome = "PermissionError" /\ ret = "False"
    /\ isRunning /\ procState[_process] = "alive"
    /\ Len(notes) = 1

\* C8: with no handle held, stop() returns true, leaves isRunning false,
\* invokes neither terminate nor wait, and shows no notification.
C8_StopWithoutHandle ==
    [][(StopCall /\ _process = 0) =>
          /\ ret' = "True"
          /\ ~isRunning /\ ~isRunning'
          /\ _process' = 0
          /\ prims' = <<>>
          /\ notes' = <<>>
      ]_vars

\* C8 witness: stop() after a start() that failed, no handle ever held.
C8_Witness ==
    /\ op = "stop" /\ ret = "True" /\ _process = 0
    /\ prev.op = "start" /\ prev.ret = "False"
    /\ ~isRunning /\ prims = <<>>

\* C9: a stop() that directly follows a stop() that returned true returns
\* true, leaves isRunning false and shows no notification.
C9_StopIdempotent ==
    [][(StopCall /\ op = "stop" /\ ret = "True") =>
          /\ ret' = "True"
          /\ ~isRunning /\ ~isRunning'
          /\ notes' = <<>>
      ]_vars

\* C9 witness: the stop() after a stop() that ended a live process.
C9_Witness ==
    /\ prev = [op |-> "stop", ret |-> "True", outcome |-> "accepted"]
    /\ op = "stop" /\ ret = "True" /\ outcome = "noop"
    /\ _process # 0 /\ ~isRunning

\* C10 as stated: after two successful start() calls in a row isRunning() is
\* true and every process spawned so far is the tracked one or has been sent
\* a terminate request or has exited.
C10_NoUntrackedLiveChild ==
    (prev.op = "start" /\ prev.ret = "True" /\ op = "start" /\ ret = "True") =>
        /\ isRunning
        /\ \A p \in 1..nspawned : p = _process \/ procState[p] # "alive"

\* C11 as stated: while isRunning() is true no step changes the port.
C11_PortFixedWhileRunning == [][isRunning => getPort' = getPort]_vars

\* C12 as stated: whenever isRunning() is false no process handle is held.
C12_NoHandleWhenStopped == ~isRunning => _process = 0

\* C13 as stated: start() and stop() never end by raising to the caller.
C13_NothingPropagates == ret # "raised"

\* C14: there is no terminal state: whenever no call is in progress both
\* start() and stop() can be called (up to MaxCalls calls), and a start()
\* whose spawn succeeds right after a stop() that returned true makes the
\* supervisor RUNNING with a freshly spawned process as its handle.
C14_NoTerminalState ==
    /\ []((pc = "idle" /\ calls < MaxCalls) => (ENABLED start /\ ENABLED stop))
    /\ [][(StartCall /\ outcome' = "ok" /\ op = "stop" /\ ret = "True") =>
             /\ ~isRunning /\ isRunning'
             /\ ret' = "True"
             /\ _process' # _process
             /\ procState[_process'] = "none"
             /\ procState'[_process'] = "alive"
         ]_vars

\* C14 witness: RUNNING again, on a second process, after a stop() that ended
\* the first one.
C14_Witness ==
    /\ prev = [op |-> "stop", ret |-> "True", outcome |-> "accepted"]
    /\ op = "start" /\ ret = "True"
    /\ isRunning /\ _process = 2
    /\ procState[1] = "exited" /\ procState[2] = "alive"

\* The failure kind of an OSError raised by the spawn: the three specific
\* kinds first, anything else blocked by the environment.
KindOf(e) ==
    CASE e = "PermissionError"   -> "PermissionDenied"
      [] e = "FileNotFoundError" -> "ExecutableNotFound"
      [] e = "BlockingIOError"   -> "ResourceUnavailable"
      [] OTHER                   -> "BlockedByEnvironment"

\* The kinds a shown message belongs to.
KindsOfMessage(m) ==
    {k \in {"PermissionDenied", "ExecutableNotFound", "ResourceUnavailable",
            "BlockedByEnvironment"} :
        \/ k = "PermissionDenied" /\ m = "No permission to execute process."
        \/ k = "ExecutableNotFound"
              /\ m = "Unable to find local EnginePlugin server executable"
        \/ k = "ResourceUnavailable" /\ m = "Resource is temporarily unavailable"
        \/ k = "BlockedByEnvironment"
              /\ m = "Operating system is blocking it (antivirus?)"}

\* C15: every OSError of the spawn is reported as exactly one of the four
\* kinds, a specific kind before the catch-all, and the error is logged with
\* its trace (logException) if and only if the kind is not PermissionDenied.
C15_Classification ==
    [][(StartCall /\ outcome' \in OSErrors) =>
          /\ Len(notes') = 1
          /\ KindsOfMessage(notes'[1]) = {KindOf(outcome')}
          /\ Len(logs') = 2
          /\ logs'[1].fn = "info"
          /\ logs'[2].level = "e"
          /\ (logs'[2].fn = "logException") <=> (KindOf(outcome') # "PermissionDenied")
          /\ (logs'[2].fn = "log") <=> (KindOf(outcome') = "PermissionDenied")
      ]_vars

\* C15 witness: an OSError subclass outside the three specific kinds was
\* reported as blocked by the environment, with its trace.
C15_Witness ==
    /\ op = "start" /\ outcome = "NotADirectoryError" /\ ret = "False"
    /\ notes = <<"Operating system is blocking it (antivirus?)">>
    /\ Len(logs) = 2 /\ logs[2].fn = "logException"

\* C16 as stated: every call of start() invokes the spawn primitive exactly
\* once, whether it succeeds or fails, and nothing but a call of start()
\* spawns: stop() never does, and no process appears in any other step.
C16_SpawnOncePerStart ==
    [][/\ StartCall => Count("Popen", prims') = 1
       /\ op' = "stop" => ~In("Popen", prims')
       /\ nspawned' # nspawned => (StartCall /\ nspawned' = nspawned + 1)
      ]_vars

\* C17: no call of start() or stop() changes the template, the address or
\* the port; the vector a start() validates, and hands to Popen, is the
\* validator's value on those three, so it is the vector of the start()
\* before it when they have not changed; validating that vector again
\* returns it unchanged, and it holds at most one "--address" and one
\* "--port" more than the template.
C17_ValidatorPure ==
    [][/\ (StartCall \/ StopCall \/ (pc = "stop_wait" /\ pc' = "idle")) =>
             UNCHANGED <<_plugin_command, _plugin_address, __port>>
       /\ StartCall =>
             /\ validated' =
                   validatePluginCommand(_plugin_command', _plugin_address', __port')
             /\ In("Popen", prims') => popenArgs' = validated'
             /\ (op = "start" /\ validated =
                   validatePluginCommand(_plugin_command, _plugin_address, __port))
                   => validated' = validated
             /\ validatePluginCommand(Some(validated'), _plugin_address', __port')
                   = validated'
             /\ Count(PortFlag, validated')
                   <= Count(PortFlag, _plugin_command'.list) + 1
             /\ Count(AddressFlag, validated')
                   <= Count(AddressFlag, _plugin_command'.list) + 1
      ]_vars

\* C17 witness: a restart handed Popen the vector of the first start, the
\* endpoint appended once.
C17_Witness ==
    /\ op = "start" /\ ret = "True" /\ _process = 2
    /\ prev.op = "stop"
    /\ _plugin_command = Some(<<Exe>>)
    /\ processArgs = <<Exe, AddressFlag, Loopback, PortFlag, str(9000)>>
    /\ popenArgs = processArgs

\* C18: stop() has no timeout.  While the process it waits for has not
\* exited, stop() stays blocked and isRunning() stays true; when every child
\* that was sent the terminate request eventually exits, every stop() that
\* blocks eventually returns true.
C18_StopBlocksUntilExit ==
    /\ [][(pc = "stop_wait" /\ procState[_process] # "exited") =>
             /\ pc' = "stop_wait"
             /\ ret' = "blocked"
             /\ isRunning /\ isRunning'
         ]_vars
    /\ (pc = "stop_wait") ~> (pc = "idle" /\ op = "stop" /\ ret = "True")

\* C18 witness: stop() is blocked on a child that has taken the terminate
\* request and has not exited.
C18_Witness ==
    /\ pc = "stop_wait" /\ ret = "blocked"
    /\ procState[_process] = "signalled"
    /\ isRunning

\* C19: whenever isRunning() is false, the tracked handle is absent or is
\* that of a process that has exited.
C19_StoppedMeansExited ==
    ~isRunning => (_process = 0 \/ procState[_process] = "exited")

\* C19 witness: stopped after a stop() that waited for the tracked process,
\* whose handle is still held.
C19_Witness ==
    /\ ~isRunning /\ _process # 0
    /\ procState[_process] = "exited"
    /\ op = "stop" /\ ret = "True" /\ prims = <<"terminate", "wait">>

\* The token that follows the first "--port" of an argument vector.
PortArgument(argv) ==
    argv[(CHOOSE i \in 1..Len(argv) :
            argv[i] = PortFlag /\ \A j \in 1..(i - 1) : argv[j] # PortFlag) + 1]

\* getPort() is the port the tracked process was started with.
PortAgrees ==
    /\ In(PortFlag, processArgs)
    /\ IsDecimalOf(PortArgument(processArgs), getPort)

\* C20 as stated: while isRunning() is true, getPort() is the port given
\* after "--port" in the command the tracked process was spawned with.
C20_PortMatchesChild == isRunning => PortAgrees

\* C20 amended: when a start() succeeds with a template that has no "--port"
\* of its own, getPort() is the port given after "--port" in the command of
\* the process it now tracks, and the two keep agreeing in every step that
\* neither changes the port nor replaces the tracked process.
C20_PortMatchesChildAtStart ==
    [][/\ (StartCall /\ outcome' = "ok" /\ ~In(PortFlag, _plugin_command.list)) =>
             (isRunning' /\ PortAgrees')
       /\ (isRunning /\ PortAgrees /\ getPort' = getPort /\ _process' = _process) =>
             PortAgrees'
      ]_vars

\* C20 witness: a running child that was given the four-digit port that
\* getPort() reports.
C20_Witness ==
    /\ isRunning /\ op = "start" /\ ret = "True"
    /\ _plugin_command = Some(<<Exe, PortEq>>)
    /\ getPort = 9000
    /\ PortArgument(processArgs) = <<"9", "0", "0", "0">>

====
